---- MODULE Spec2Model ----
(***************************************************************************)
(* Smart Solar Repositioning API (backend/main.py and the router of        *)
(* backend/routes/solar_routes.py).                                        *)
(*                                                                         *)
(* Numbers.  Angles (latitude, longitude, tilt, azimuth) are integers in   *)
(* tenths of a degree: 28.6 degrees is 286.  Every other real number is an *)
(* exact non-negative rational <<n, d>> in lowest terms, so that 0.85,     *)
(* 0.98 and the seasonal weights are the numbers the source writes.        *)
(* round(x, 1) is modelled by Round1, which yields an integer number of    *)
(* tenths.  Where the exact value lies half way between two tenths (23.95) *)
(* the float of the code lies a rounding error to one side or the other;   *)
(* Round1 takes the even tenth there, and no property below depends on     *)
(* which side is taken.                                                    *)
(***************************************************************************)
EXTENDS Integers, Sequences, FiniteSets, TLC

VARIABLES pc, handler, request, est, weather_calls, fetch, weather_data,
          response, served

vars == <<pc, handler, request, est, weather_calls, fetch, weather_data,
          response, served>>

(***************************************************************************)
(* Exact arithmetic on non-negative rationals.                             *)
(***************************************************************************)
Abs(x) == IF x < 0 THEN -x ELSE x

Min(a, b) == IF a <= b THEN a ELSE b

Max(a, b) == IF a >= b THEN a ELSE b

RECURSIVE GCD(_, _)
GCD(a, b) == IF b = 0 THEN a ELSE GCD(b, a % b)

LCM(a, b) == (a \div GCD(a, b)) * b

Rat(n, d) == LET g == GCD(n, d) IN <<n \div g, d \div g>>

RInt(k) == <<k, 1>>

\* (a/b) * (c/d), cancelling across before multiplying
RMul(x, y) ==
    LET g1 == GCD(x[1], y[2])
        g2 == GCD(y[1], x[2])
    IN  <<(x[1] \div g1) * (y[1] \div g2), (x[2] \div g2) * (y[2] \div g1)>>

\* x / y for y > 0
RDiv(x, y) == RMul(x, <<y[2], y[1]>>)

\* x < y, compared over the common denominator of the fractional parts
RLess(x, y) ==
    LET wx == x[1] \div x[2]
        wy == y[1] \div y[2]
        l  == LCM(x[2], y[2])
    IN  \/ wx < wy
        \/ /\ wx = wy
           /\ (x[1] % x[2]) * (l \div x[2]) < (y[1] % y[2]) * (l \div y[2])

RECURSIVE LCMOfDens(_)
LCMOfDens(s) == IF s = <<>> THEN 1 ELSE LCM(Head(s)[2], LCMOfDens(Tail(s)))

RECURSIVE SumInts(_)
SumInts(s) == IF s = <<>> THEN 0 ELSE Head(s) + SumInts(Tail(s))

\* the whole parts of s[i..], added up
RECURSIVE SumWhole(_, _)
SumWhole(s, i) ==
    IF i > Len(s) THEN 0 ELSE (s[i][1] \div s[i][2]) + SumWhole(s, i + 1)

\* the fractional parts of s[i..] over the denominator l, added up
RECURSIVE SumFrac(_, _, _)
SumFrac(s, i, l) ==
    IF i > Len(s) THEN 0
    ELSE (s[i][1] % s[i][2]) * (l \div s[i][2]) + SumFrac(s, i + 1, l)

\* sum(values): whole parts and fractional parts are added separately
RSum(s) ==
    LET l    == LCMOfDens(s)
        frac == SumFrac(s, 1, l)
        w    == SumWhole(s, 1) + (frac \div l)
        r    == frac % l
        g    == GCD(r, l)
    IN  <<w * (l \div g) + (r \div g), l \div g>>

\* round(x, 1) in tenths; a value exactly half way goes to the even tenth
Round1(x) ==
    LET w   == x[1] \div x[2]
        r10 == (x[1] % x[2]) * 10
        t   == w * 10 + (r10 \div x[2])
        rem == r10 % x[2]
    IN  IF 2 * rem > x[2] THEN t + 1
        ELSE IF 2 * rem < x[2] THEN t
        ELSE IF t % 2 = 0 THEN t ELSE t + 1

(***************************************************************************)
(* main.py: the estimator's pure functions.                                *)
(***************************************************************************)
\* the bands closed at their upper ends
BasePoa_InclusiveBands(lat_abs) ==
    IF lat_abs <= 100 THEN 1900
    ELSE IF lat_abs <= 200 THEN 1750
    ELSE IF lat_abs <= 300 THEN 1800
    ELSE IF lat_abs <= 450 THEN 1500
    ELSE IF lat_abs <= 600 THEN 1200
    ELSE 800

\* base_poa by |latitude| band, lines 89-100
BasePoa(lat_abs) ==
    IF lat_abs < 100 THEN 1900
    ELSE IF lat_abs < 200 THEN 1750
    ELSE IF lat_abs < 300 THEN 1800
    ELSE IF lat_abs < 450 THEN 1500
    ELSE IF lat_abs < 600 THEN 1200
    ELSE 800

IsMonsoonRegion(lat_abs, longitude) ==
    /\ 80 <= lat_abs /\ lat_abs <= 370
    /\ 680 <= longitude /\ longitude <= 970

\* the multiplier of lines 101-105
RegionalFactor(lat_abs, longitude) ==
    IF IsMonsoonRegion(lat_abs, longitude)
    THEN IF longitude < 770 \/ longitude > 920 THEN Rat(85, 100) ELSE Rat(90, 100)
    ELSE RInt(1)

\* max(0.75, 1.0 - 0.01 * tilt_diff), lines 106-108; tilt in tenths
TiltPenalty(lat_abs, tilt) ==
    LET optimal_tilt == Min(lat_abs, 350)
        tilt_diff    == Abs(tilt - optimal_tilt)
    IN  Rat(Max(750, 1000 - tilt_diff), 1000)

_calculate_realistic_annual_poa(latitude, longitude, tilt) ==
    LET lat_abs == Abs(latitude)
    IN  RMul(RMul(RInt(BasePoa(lat_abs)), RegionalFactor(lat_abs, longitude)),
             TiltPenalty(lat_abs, tilt))

\* the seasonal weight templates of lines 115-122, in hundredths
MonsoonFactors == <<90, 85, 105, 110, 105, 60, 50, 55, 70, 95, 90, 90>>

TropicalFactors == <<84, 86, 89, 88, 85, 78, 80, 83, 85, 87, 87, 85>>

TemperateFactors == <<63, 71, 84, 95, 106, 108, 109, 103, 88, 76, 62, 55>>

HighLatFactors == <<35, 55, 82, 108, 128, 135, 133, 115, 88, 65, 40, 26>>

\* lines 112-122: the template chosen for a location
TemplateFor(latitude, longitude) ==
    LET lat_abs == Abs(latitude)
    IN  IF IsMonsoonRegion(lat_abs, longitude) THEN MonsoonFactors
        ELSE IF lat_abs < 235 THEN TropicalFactors
        ELSE IF lat_abs < 450 THEN TemperateFactors
        ELSE HighLatFactors

\* the southern hemisphere left on the northern calendar
SeasonFactors_NoRotation(latitude, longitude) == TemplateFor(latitude, longitude)

\* lines 123-124: monthly_factors[6:] + monthly_factors[:6] when latitude < 0
SeasonFactors(latitude, longitude) ==
    LET monthly_factors == TemplateFor(latitude, longitude)
    IN  IF latitude < 0
        THEN SubSeq(monthly_factors, 7, 12) \o SubSeq(monthly_factors, 1, 6)
        ELSE monthly_factors

\* a list comprehension over the 12 months, as the list it builds
List12(f) == <<f[1], f[2], f[3], f[4], f[5], f[6], f[7], f[8], f[9], f[10], f[11], f[12]>>

\* lines 128-131: rescale the values so that they sum to annual_total
Rescale(monthly_values, annual_total) ==
    LET actual_sum == RSum(monthly_values)
    IN  IF actual_sum[1] > 0
        THEN LET scale == RDiv(annual_total, actual_sum)
             IN  List12([i \in 1..12 |-> RMul(monthly_values[i], scale)])
        ELSE monthly_values

\* the weights applied to a twelfth of the total, neither normalised nor rescaled
MonthlyDistribution_Twelfths(latitude, longitude, annual_total) ==
    LET monthly_factors == SeasonFactors(latitude, longitude)
    IN  List12([i \in 1..12 |-> RMul(annual_total, Rat(monthly_factors[i], 1200))])

_calculate_monthly_distribution(latitude, longitude, annual_total) ==
    LET monthly_factors   == SeasonFactors(latitude, longitude)
        total_factor      == SumInts(monthly_factors)
        monthly_fractions == List12([i \in 1..12 |-> Rat(monthly_factors[i], total_factor)])
        monthly_values    == List12([i \in 1..12 |-> RMul(annual_total, monthly_fractions[i])])
    IN  Rescale(monthly_values, annual_total)

\* lines 134-152; azimuth in tenths of a degree
_get_direction_name(azimuth) ==
    LET az == azimuth % 3600
    IN  IF az < 225 \/ az >= 3375 THEN "North"
        ELSE IF az < 675 THEN "North-East"
        ELSE IF az < 1125 THEN "East"
        ELSE IF az < 1575 THEN "South-East"
        ELSE IF az < 2025 THEN "South"
        ELSE IF az < 2475 THEN "South-West"
        ELSE IF az < 2925 THEN "West"
        ELSE IF az < 3375 THEN "North-West"
        ELSE "North"

\* the tilt without the cap at 35 degrees
OptimalTilt_Uncapped(lat) ==
    LET optimal_tilt == Abs(lat)
    IN  IF optimal_tilt <= 250 THEN optimal_tilt + 20
        ELSE IF optimal_tilt > 500 THEN optimal_tilt - 30
        ELSE optimal_tilt

\* lines 167-171: min(abs(lat), 35.0), plus 2 when <= 25, minus 3 when > 50
OptimalTilt(lat) ==
    LET optimal_tilt == Min(Abs(lat), 350)
    IN  IF optimal_tilt <= 250 THEN optimal_tilt + 20
        ELSE IF optimal_tilt > 500 THEN optimal_tilt - 30
        ELSE optimal_tilt

\* the equator sent north: lat > 0 instead of lat >= 0
OptimalAzimuth_StrictNorth(lat) == IF lat > 0 THEN 1800 ELSE 0

\* line 172
OptimalAzimuth(lat) == IF lat >= 0 THEN 1800 ELSE 0

\* line 174: min(25, 5 + abs(lat) * 0.3)
EfficiencyGain(lat) ==
    LET g == Rat(500 + 3 * Abs(lat), 100)
    IN  IF RLess(RInt(25), g) THEN RInt(25) ELSE g

\* line 181: (cloud_cover / 100) * 0.3
CloudPenalty(cloud_cover) == Rat(3 * cloud_cover, 1000)

\* line 182: max(0, (humidity - 60) / 100) * 0.1
HumidityPenalty(humidity) == Rat(Max(0, humidity - 60), 1000)

\* 1 - x for 0 <= x <= 1
OneMinus(x) == <<x[2] - x[1], x[2]>>

\* line 183: efficiency_gain * (1 - cloud_penalty - humidity_penalty)
AdjustEfficiency(efficiency_gain, cloud_cover, humidity) ==
    LET penalties == RSum(<<CloudPenalty(cloud_cover), HumidityPenalty(humidity)>>)
    IN  RMul(efficiency_gain, OneMinus(penalties))

\* line 184: annual_poa * (1 - cloud_penalty * 0.5)
AdjustPoa(annual_poa, cloud_cover) ==
    RMul(annual_poa, OneMinus(RMul(CloudPenalty(cloud_cover), Rat(1, 2))))

\* int(np.argmax(values)) and int(np.argmin(values)): one pass that keeps the
\* first index of the largest (smallest) value
RECURSIVE ArgMaxFrom(_, _, _)
ArgMaxFrom(values, i, best) ==
    IF i > Len(values) THEN best
    ELSE ArgMaxFrom(values, i + 1, IF RLess(values[best], values[i]) THEN i ELSE best)

\* the scan started one element late, so that the first month is never the peak
ArgMax_FromSecond(values) == ArgMaxFrom(values, 3, 2)

ArgMax(values) == ArgMaxFrom(values, 2, 1)

RECURSIVE ArgMinFrom(_, _, _)
ArgMinFrom(values, i, best) ==
    IF i > Len(values) THEN best
    ELSE ArgMinFrom(values, i + 1, IF RLess(values[i], values[best]) THEN i ELSE best)

ArgMin(values) == ArgMinFrom(values, 2, 1)

months_full == <<"January", "February", "March", "April", "May", "June", "July",
                 "August", "September", "October", "November", "December">>

\* lines 209-219: the two tips of the latitude band
BandTips(abs_lat) ==
    IF abs_lat < 235
    THEN <<"Your tropical location receives consistent solar irradiance year-round",
           "Consider tracking systems for maximum efficiency due to high sun angles">>
    ELSE IF abs_lat < 400
    THEN <<"Seasonal adjustment of tilt angle can increase annual energy yield by 3-5%",
           "Consider east-west orientation to reduce afternoon overheating">>
    ELSE <<"Winter conditions may impact performance - ensure easy cleaning access",
           "Consider higher mounting to maximize winter sun exposure">>

\* lines 221-225
GeneralTips ==
    <<"Regular cleaning improves efficiency by 2-5%",
      "Avoid shading between 10 AM - 2 PM for optimal performance",
      "Optimal tilt angle is ideal for your latitude">>

CloudTip == "High cloud cover may reduce current efficiency"

HumidityTip == "High humidity - ensure proper ventilation around panels"

NoWeather == [kind |-> "none"]

\* the humidity tip put at the head of the list, like the cloud-cover tip
WeatherTips_HumidityFirst(tips, wd) ==
    IF wd.kind = "none" THEN tips
    ELSE LET t1 == IF wd.cloud_cover > 70 THEN <<CloudTip>> \o tips ELSE tips
         IN  IF wd.humidity > 80 THEN <<HumidityTip>> \o t1 ELSE t1

\* lines 226-230: tips.insert(0, ...) and tips.append(...)
WeatherTips(tips, wd) ==
    IF wd.kind = "none" THEN tips
    ELSE LET t1 == IF wd.cloud_cover > 70 THEN <<CloudTip>> \o tips ELSE tips
         IN  IF wd.humidity > 80 THEN Append(t1, HumidityTip) ELSE t1

\* the list built by lines 209-230
BuildTips(lat, wd) == WeatherTips(BandTips(Abs(lat)) \o GeneralTips, wd)

\* the list returned whole
FirstSix_All(tips) == tips

\* line 242: tips[:6]
FirstSix(tips) == SubSeq(tips, 1, Min(6, Len(tips)))

\* lines 165-177: the locals before any weather is applied
Estimate(req) ==
    LET lat          == req.latitude
        optimal_tilt == OptimalTilt(lat)
        annual_poa   == _calculate_realistic_annual_poa(lat, req.longitude, optimal_tilt)
        efficiency   == EfficiencyGain(lat)
    IN  [kind |-> "estimate",
         optimal_tilt |-> optimal_tilt,
         optimal_azimuth |-> OptimalAzimuth(lat),
         annual_poa |-> annual_poa,
         efficiency_gain |-> efficiency,
         weather_adjusted_poa |-> annual_poa,
         weather_adjusted_efficiency |-> efficiency,
         monthly_values |-> <<>>]

\* lines 180-184: the adjustment when weather_data is truthy
Adjusted(e, wd) ==
    IF wd.kind = "none" THEN e
    ELSE [e EXCEPT
            !.weather_adjusted_efficiency =
                AdjustEfficiency(e.efficiency_gain, wd.cloud_cover, wd.humidity),
            !.weather_adjusted_poa = AdjustPoa(e.annual_poa, wd.cloud_cover)]

\* the monthly values spread from the unadjusted annual figure
Assembled_RawAnnual(req, e, wd) ==
    [Adjusted(e, wd) EXCEPT !.monthly_values =
        _calculate_monthly_distribution(req.latitude, req.longitude, e.annual_poa)]

\* lines 180-193: the locals once the weather is applied and the months are spread
Assembled(req, e, wd) ==
    LET a == Adjusted(e, wd)
    IN  [a EXCEPT !.monthly_values =
            _calculate_monthly_distribution(req.latitude, req.longitude,
                                            a.weather_adjusted_poa)]

\* round(x) to a whole number, given in tenths
RoundUnits(x) == 10 * ((Round1(x) + 5) \div 10)

\* the report with the monthly values rounded to whole numbers
Report_RoundedToUnits(req, e, wd) ==
    [status            |-> 200,
     latitude          |-> req.latitude,
     longitude         |-> req.longitude,
     optimal_tilt      |-> e.optimal_tilt,
     optimal_azimuth   |-> e.optimal_azimuth,
     annual_irradiance |-> Round1(e.weather_adjusted_poa),
     efficiency_gain   |-> Round1(e.weather_adjusted_efficiency),
     monthly_data      |-> List12([i \in 1..12 |-> RoundUnits(e.monthly_values[i])]),
     peak_month        |-> months_full[ArgMax(e.monthly_values)],
     low_month         |-> months_full[ArgMin(e.monthly_values)],
     tips              |-> FirstSix(BuildTips(req.latitude, wd)),
     direction         |-> _get_direction_name(e.optimal_azimuth),
     weather_adjusted  |-> req.include_weather,
     weather_data      |-> wd]

\* lines 194-247: the report
Report(req, e, wd) ==
    [status            |-> 200,
     latitude          |-> req.latitude,
     longitude         |-> req.longitude,
     optimal_tilt      |-> e.optimal_tilt,
     optimal_azimuth   |-> e.optimal_azimuth,
     annual_irradiance |-> Round1(e.weather_adjusted_poa),
     efficiency_gain   |-> Round1(e.weather_adjusted_efficiency),
     monthly_data      |-> List12([i \in 1..12 |-> Round1(e.monthly_values[i])]),
     peak_month        |-> months_full[ArgMax(e.monthly_values)],
     low_month         |-> months_full[ArgMin(e.monthly_values)],
     tips              |-> FirstSix(BuildTips(req.latitude, wd)),
     direction         |-> _get_direction_name(e.optimal_azimuth),
     weather_adjusted  |-> req.include_weather,
     weather_data      |-> wd]

(***************************************************************************)
(* routes/solar_routes.py with utils/solar_calculations.py and             *)
(* utils/weather_service.py: the router's handler.  Its report is kept on  *)
(* the fields optimal_tilt, optimal_azimuth, annual_irradiance and         *)
(* weather_adjusted.                                                       *)
(***************************************************************************)
\* SolarCalculator._calculate_optimal_tilt
CalcOptimalTilt(latitude) ==
    LET abs_lat == Abs(latitude)
    IN  IF abs_lat <= 250 THEN abs_lat + 50
        ELSE IF abs_lat <= 500 THEN abs_lat
        ELSE abs_lat - 50

\* SolarCalculator._calculate_optimal_azimuth
CalcOptimalAzimuth(latitude) == IF latitude >= 0 THEN 1800 ELSE 0

\* SolarCalculator._calculate_annual_irradiance
CalcAnnualIrradiance(latitude) ==
    LET abs_lat         == Abs(latitude)
        base_irradiance == Rat(20000 - 15 * abs_lat, 10)
        climate_factor  == IF 235 <= abs_lat /\ abs_lat <= 350 THEN Rat(11, 10)
                           ELSE IF abs_lat <= 235 THEN Rat(12, 10)
                           ELSE IF 350 < abs_lat /\ abs_lat <= 600 THEN Rat(9, 10)
                           ELSE Rat(7, 10)
        v               == RMul(base_irradiance, climate_factor)
    IN  IF RLess(v, RInt(800)) THEN RInt(800) ELSE v

\* WeatherService.get_weather_data: simulated conditions, cloud_cover in hundredths
SimulatedWeather(latitude) ==
    LET abs_lat == Abs(latitude)
    IN  IF abs_lat < 300 THEN [kind |-> "data", cloud_cover |-> 40]
        ELSE IF abs_lat < 500 THEN [kind |-> "data", cloud_cover |-> 50]
        ELSE [kind |-> "data", cloud_cover |-> 60]

\* SolarCalculator.calculate_optimal_positioning
calculate_optimal_positioning(latitude, longitude) ==
    [status            |-> 200,
     optimal_tilt      |-> CalcOptimalTilt(latitude),
     optimal_azimuth   |-> CalcOptimalAzimuth(latitude),
     annual_irradiance |-> Rat(Round1(CalcAnnualIrradiance(latitude)), 10),
     weather_adjusted  |-> FALSE]

\* SolarCalculator.combine_solar_weather_data
combine_solar_weather_data(solar_data, wd) ==
    IF wd.kind = "none" THEN solar_data
    ELSE LET cloud_factor == OneMinus(Rat(wd.cloud_cover * 3, 1000))
         IN  [solar_data EXCEPT
                !.annual_irradiance = RMul(solar_data.annual_irradiance, cloud_factor),
                !.weather_adjusted  = TRUE]

(***************************************************************************)
(* The requests and the weather provider's replies that are explored.      *)
(***************************************************************************)
\* requests handled in one run
MaxRequests == 2

\* |latitude| in tenths: both sides of every threshold of the source, the
\* scenarios 28.6 and 33.9 of the specification, and 90.1 out of range
LatMagnitudes ==
    {0, 79, 80, 99, 100, 199, 200, 234, 235, 250, 251, 286, 299, 300, 339,
     350, 370, 371, 399, 400, 449, 450, 599, 600, 900, 901}

\* southern latitudes: one in each band, the end of the range and beyond it
SouthMagnitudes == {1, 80, 286, 339, 450, 900, 901}

Latitudes == LatMagnitudes \cup {-m : m \in SouthMagnitudes}

Longitudes ==
    {-1801, -1800, 0, 679, 680, 769, 770, 772, 920, 921, 970, 971, 1800, 1801}

CloudCovers == {0, 35, 70, 71, 100}

Humidities == {0, 60, 61, 80, 81, 100}

CurrentFields == {"temperature_2m", "relative_humidity_2m", "cloud_cover", "wind_speed_10m"}

\* what requests.get and the body it returns can be
FetchOutcomes ==
    {[kind |-> k, missing |-> "", cloud_cover |-> 0, humidity |-> 0] :
        k \in {"network_error", "timeout", "http_error", "no_current"}}
    \cup {[kind |-> "missing_field", missing |-> f, cloud_cover |-> 50, humidity |-> 50] :
        f \in CurrentFields}
    \cup {[kind |-> "complete", missing |-> "", cloud_cover |-> c, humidity |-> h] :
        c \in CloudCovers, h \in Humidities}

NoFetch == [kind |-> "none", missing |-> "", cloud_cover |-> 0, humidity |-> 0]

NoRequest == [latitude |-> 0, longitude |-> 0, include_weather |-> FALSE]

NoEst == [kind |-> "none"]

NoResponse == [status |-> 0]

Init ==
    /\ pc = "idle"
    /\ handler = "none"
    /\ request = NoRequest
    /\ est = NoEst
    /\ weather_calls = 0
    /\ fetch = NoFetch
    /\ weather_data = NoWeather
    /\ response = NoResponse
    /\ served = 0

\* a request arrives at POST /api/solar-data of the app (main.py) or of the router
Submit(h, lat, lng, iw) ==
    /\ pc = "idle"
    /\ served < MaxRequests
    /\ pc' = "received"
    /\ handler' = h
    /\ request' = [latitude |-> lat, longitude |-> lng, include_weather |-> iw]
    /\ UNCHANGED <<est, weather_calls, fetch, weather_data, response, served>>

\* the response is sent and the handler returns: nothing of the request is kept
Return ==
    /\ pc = "done"
    /\ pc' = "idle"
    /\ handler' = "none"
    /\ request' = NoRequest
    /\ est' = NoEst
    /\ weather_calls' = 0
    /\ fetch' = NoFetch
    /\ weather_data' = NoWeather
    /\ response' = NoResponse
    /\ served' = served + 1

LatitudeOk(lat) == -900 <= lat /\ lat <= 900

LongitudeOk(lng) == -1800 <= lng /\ lng <= 1800

\* main.py, SolarRequest: Field(ge=-90, le=90), Field(ge=-180, le=180).  A body
\* that fails the model is answered by FastAPI's request validation (422, the
\* offending fields listed) before the handler's body runs.
AppValidate ==
    /\ pc = "received" /\ handler = "app"
    /\ IF LatitudeOk(request.latitude) /\ LongitudeOk(request.longitude)
       THEN /\ pc' = "handler"
            /\ UNCHANGED <<response, served>>
       ELSE /\ pc' = "done"
            /\ response' = [status  |-> 422,
                            invalid |-> {f \in {"latitude", "longitude"} :
                                \/ f = "latitude" /\ ~LatitudeOk(request.latitude)
                                \/ f = "longitude" /\ ~LongitudeOk(request.longitude)}]
            /\ UNCHANGED served
    /\ UNCHANGED <<handler, request, est, weather_calls, fetch, weather_data>>

\* main.py lines 165-179: the estimate, then the call of get_weather_data, whose
\* requests.get is issued when include_weather is set
AppEstimate ==
    /\ pc = "handler" /\ handler = "app"
    /\ est' = Estimate(request)
    /\ IF request.include_weather
       THEN /\ weather_calls' = weather_calls + 1
            /\ pc' = "awaiting"
       ELSE /\ pc' = "assemble"
            /\ UNCHANGED weather_calls
    /\ UNCHANGED <<handler, request, fetch, weather_data, response, served>>

\* get_weather_data asking the provider a second time after a failed attempt
GetWeatherData_Retry(o) ==
    /\ pc = "awaiting" /\ handler = "app"
    /\ fetch' = o
    /\ IF o.kind \in {"network_error", "timeout", "http_error"} /\ weather_calls < 2
       THEN /\ weather_calls' = weather_calls + 1
            /\ pc' = "awaiting"
            /\ UNCHANGED <<weather_data, response, served>>
       ELSE IF o.kind = "missing_field"
       THEN /\ pc' = "done"
            /\ response' = [status |-> 500, detail |-> "Solar analysis failed"]
            /\ UNCHANGED <<weather_data, weather_calls, served>>
       ELSE /\ pc' = "assemble"
            /\ weather_data' =
                  IF o.kind = "complete"
                  THEN [kind |-> "data", cloud_cover |-> o.cloud_cover,
                        humidity |-> o.humidity]
                  ELSE NoWeather
            /\ UNCHANGED <<response, weather_calls, served>>
    /\ UNCHANGED <<handler, request, est>>

\* get_weather_data, lines 64-85, on the outcome o of requests.get:
\* a RequestException, or a body without "current", gives None; a "current"
\* without one of the rounded fields makes round(None) raise TypeError, which
\* get_weather_data does not catch and lines 249-251 turn into a 500
GetWeatherData(o) ==
    /\ pc = "awaiting" /\ handler = "app"
    /\ fetch' = o
    /\ IF o.kind = "missing_field"
       THEN /\ pc' = "done"
            /\ response' = [status |-> 500, detail |-> "Solar analysis failed"]
            /\ UNCHANGED <<weather_data, served>>
       ELSE /\ pc' = "assemble"
            /\ weather_data' =
                  IF o.kind = "complete"
                  THEN [kind |-> "data", cloud_cover |-> o.cloud_cover,
                        humidity |-> o.humidity]
                  ELSE NoWeather
            /\ UNCHANGED <<response, served>>
    /\ UNCHANGED <<handler, request, est, weather_calls>>

\* main.py lines 180-247
AppAssemble ==
    /\ pc = "assemble" /\ handler = "app"
    /\ est' = Assembled(request, est, weather_data)
    /\ response' = Report(request, est', weather_data)
    /\ pc' = "done"
    /\ UNCHANGED <<handler, request, weather_calls, fetch, weather_data, served>>

\* routes/solar_routes.py lines 18-54, the whole handler
RouterHandle ==
    /\ pc = "received" /\ handler = "router"
    /\ IF ~LatitudeOk(request.latitude)
       THEN /\ response' = [status |-> 400,
                            detail |-> "Invalid latitude. Must be between -90 and 90."]
            /\ UNCHANGED <<est, weather_data>>
       ELSE IF ~LongitudeOk(request.longitude)
       THEN /\ response' = [status |-> 400,
                            detail |-> "Invalid longitude. Must be between -180 and 180."]
            /\ UNCHANGED <<est, weather_data>>
       ELSE LET solar_data == calculate_optimal_positioning(request.latitude,
                                                            request.longitude)
                wd         == IF request.include_weather
                              THEN SimulatedWeather(request.latitude)
                              ELSE NoWeather
            IN  /\ est' = [kind |-> "solar_data"]
                /\ weather_data' = wd
                /\ response' = combine_solar_weather_data(solar_data, wd)
    /\ weather_calls' =
          IF /\ LatitudeOk(request.latitude) /\ LongitudeOk(request.longitude)
             /\ request.include_weather
          THEN weather_calls + 1
          ELSE weather_calls
    /\ pc' = "done"
    /\ UNCHANGED <<handler, request, fetch, served>>

Next ==
    \/ \E h \in {"app", "router"}, lat \in Latitudes, lng \in Longitudes, iw \in BOOLEAN :
          Submit(h, lat, lng, iw)
    \/ AppValidate
    \/ AppEstimate
    \/ \E o \in FetchOutcomes : GetWeatherData(o)
    \/ AppAssemble
    \/ RouterHandle
    \/ Return

Spec == Init /\ [][Next]_vars

(***************************************************************************)
(* _calculate_monthly_distribution on its own: every location of the       *)
(* ranges with a choice of annual totals.                                  *)
(***************************************************************************)
AnnualTotals ==
    {<<0, 1>>, <<1, 1>>, <<1, 3>>, <<800, 1>>, <<1862, 1>>, <<5831, 4>>,
     <<11644507, 8000>>}

DistInit ==
    /\ pc = "dist_call"
    /\ handler = "none"
    /\ request \in {[latitude |-> lat, longitude |-> lng, include_weather |-> FALSE] :
                      lat \in {l \in Latitudes : LatitudeOk(l)},
                      lng \in {l \in Longitudes : LongitudeOk(l)}}
    /\ est \in {[kind |-> "annual_total", annual_total |-> t, monthly_values |-> <<>>] :
                  t \in AnnualTotals}
    /\ weather_calls = 0
    /\ fetch = NoFetch
    /\ weather_data = NoWeather
    /\ response = NoResponse
    /\ served = 0

Distribute ==
    /\ pc = "dist_call"
    /\ est' = [est EXCEPT !.kind = "distribution",
                          !.monthly_values =
                              _calculate_monthly_distribution(request.latitude,
                                  request.longitude, est.annual_total)]
    /\ pc' = "dist_done"
    /\ UNCHANGED <<handler, request, weather_calls, fetch, weather_data, response, served>>

NextDist == Distribute

SpecDist == DistInit /\ [][NextDist]_vars

(***************************************************************************)
(* Properties.                                                             *)
(***************************************************************************)
AppAnswered == pc = "done" /\ handler = "app"

AppReported == AppAnswered /\ response.status = 200

\* the report of the same request made with include_weather = false
ReportWithoutWeather(req) ==
    Report([req EXCEPT !.include_weather = FALSE],
           Assembled(req, Estimate(req), NoWeather), NoWeather)

WeatherFailed ==
    fetch.kind \in {"network_error", "timeout", "http_error", "no_current", "missing_field"}

\* C1: when include_weather is set and the weather provider fails in any way
\* (transport error, timeout, non-2xx, no "current" block, a "current" block
\* without one of its fields), the request is still answered 200 with
\* weather_data null and the annual irradiance, efficiency gain and monthly
\* data of the same request made without weather.
C1_WeatherFailureAbsorbed ==
    (AppAnswered /\ request.include_weather /\ WeatherFailed)
        => /\ response.status = 200
           /\ response.weather_data = NoWeather
           /\ response.annual_irradiance = ReportWithoutWeather(request).annual_irradiance
           /\ response.efficiency_gain = ReportWithoutWeather(request).efficiency_gain
           /\ response.monthly_data = ReportWithoutWeather(request).monthly_data

\* C2: the reported tilt is min(|latitude|, 35) + 2 when min(|latitude|, 35) <= 25
\* and min(|latitude|, 35) otherwise, so it lies between 2 and 35 degrees.
C2_TiltFormula ==
    AppReported =>
        LET m == Min(Abs(request.latitude), 350)
        IN  /\ response.optimal_tilt = (IF m <= 250 THEN m + 20 ELSE m)
            /\ 20 <= response.optimal_tilt /\ response.optimal_tilt <= 350

C2_Witness ==
    /\ AppReported
    /\ Abs(request.latitude) > 500
    /\ response.optimal_tilt = 350

\* C3: the reported azimuth is 180 for latitude >= 0 (0 included) and 0 for
\* latitude < 0, and its direction name is "South" for 180 and "North" for 0.
C3_AzimuthAndDirection ==
    AppReported =>
        /\ request.latitude >= 0 =>
              response.optimal_azimuth = 1800 /\ response.direction = "South"
        /\ request.latitude < 0 =>
              response.optimal_azimuth = 0 /\ response.direction = "North"

C3_Witness ==
    /\ AppReported
    /\ request.latitude = 0
    /\ response.optimal_azimuth = 1800
    /\ response.direction = "South"

\* C4: a request with latitude outside [-90, 90] or longitude outside
\* [-180, 180] is answered 400 with nothing estimated and no weather call, and
\* never 500; latitude +/-90 and longitude +/-180 are not rejected.
C4_OutOfRangeIs400 ==
    pc = "done" =>
        IF LatitudeOk(request.latitude) /\ LongitudeOk(request.longitude)
        THEN response.status \notin {400, 422}
        ELSE /\ response.status = 400
             /\ est = NoEst
             /\ weather_calls = 0

\* C5: the 12 values of the monthly distribution sum to the annual total that
\* was passed in, for every template and hemisphere and for a total of 0.
C5_MonthlySumIsTotal ==
    pc = "dist_done" =>
        /\ Len(est.monthly_values) = 12
        /\ RSum(est.monthly_values) = est.annual_total

C5_Witness ==
    /\ pc = "dist_done"
    /\ request.latitude < 0
    /\ IsMonsoonRegion(Abs(request.latitude), request.longitude)
    /\ est.annual_total = <<11644507, 8000>>
    /\ RSum(est.monthly_values) = est.annual_total

\* C6 as claimed: the 12 reported monthly values, each rounded to one decimal,
\* sum to the reported annual irradiance, and none is negative.
C6_RoundedSumEqualsAnnual ==
    AppReported =>
        /\ SumInts(response.monthly_data) = response.annual_irradiance
        /\ \A i \in 1..12 : response.monthly_data[i] >= 0

\* C6 as amended: the 12 reported monthly values sum to the reported annual
\* irradiance to within 0.6 (each is rounded to one decimal separately), and
\* none is negative.
C6_RoundedSumNearAnnual ==
    AppReported =>
        /\ Abs(SumInts(response.monthly_data) - response.annual_irradiance) <= 6
        /\ \A i \in 1..12 : response.monthly_data[i] >= 0

C6_Witness ==
    /\ AppReported
    /\ weather_data.kind = "data"
    /\ SumInts(response.monthly_data) # response.annual_irradiance

\* C7: for latitude L > 0 the distribution at -L is the distribution at L
\* rotated by 6 months, in every band, the monsoon band included.
C7_SouthIsNorthRotated ==
    (pc = "dist_done" /\ request.latitude > 0) =>
        LET south == _calculate_monthly_distribution(-request.latitude,
                         request.longitude, est.annual_total)
        IN  \A i \in 0..11 : south[i + 1] = est.monthly_values[((i + 6) % 12) + 1]

C7_Witness ==
    /\ pc = "dist_done"
    /\ request.latitude > 0
    /\ IsMonsoonRegion(Abs(request.latitude), request.longitude)
    /\ est.annual_total[1] > 0
    /\ est.monthly_values[1] # est.monthly_values[7]

\* C8: the returned tips are at most 6, and with weather present and
\* cloud_cover > 70 the cloud-cover tip is the first of them.
C8_TipsBounded ==
    AppReported =>
        /\ Len(response.tips) <= 6
        /\ (weather_data.kind = "data" /\ weather_data.cloud_cover > 70)
              => response.tips[1] = CloudTip

C8_Witness ==
    /\ AppReported
    /\ weather_data.kind = "data"
    /\ weather_data.cloud_cover > 70
    /\ weather_data.humidity > 80
    /\ Len(response.tips) = 6
    /\ response.tips[1] = CloudTip

\* the table of the claim C9
C9_Base(a) ==
    CASE a < 100 -> 1900
      [] a >= 100 /\ a < 200 -> 1750
      [] a >= 200 /\ a < 300 -> 1800
      [] a >= 300 /\ a < 450 -> 1500
      [] a >= 450 /\ a < 600 -> 1200
      [] OTHER -> 800

C9_Regional(a, lng) ==
    IF a >= 80 /\ a <= 370 /\ lng >= 770 /\ lng <= 920 THEN <<9, 10>>
    ELSE IF a >= 80 /\ a <= 370 /\ ((lng >= 680 /\ lng < 770) \/ (lng > 920 /\ lng <= 970))
    THEN <<17, 20>>
    ELSE <<1, 1>>

C9_Penalty(a, tilt) == Rat(Max(750, 1000 - Abs(tilt - Min(a, 350))), 1000)

\* C9: with no weather applied the annual irradiance is base x regional x
\* penalty, with the bands, the regional multipliers and the tilt penalty of
\* the claim; (0, 0) gives 1900 unmultiplied and (28.6, 77.2) gives 1800 x 0.90.
C9_AnnualFormula ==
    (AppReported /\ weather_data.kind = "none") =>
        LET a        == Abs(request.latitude)
            expected == RMul(RMul(<<C9_Base(a), 1>>, C9_Regional(a, request.longitude)),
                             C9_Penalty(a, response.optimal_tilt))
        IN  /\ est.weather_adjusted_poa = expected
            /\ response.annual_irradiance = Round1(expected)
            /\ (request.latitude = 0 /\ request.longitude = 0)
                  => response.annual_irradiance = 18620
            /\ (request.latitude = 286 /\ request.longitude = 772)
                  => response.annual_irradiance = 16200

C9_Witness ==
    /\ AppReported
    /\ weather_data.kind = "none"
    /\ request.latitude = 286
    /\ request.longitude = 772
    /\ response.annual_irradiance = 16200

\* C10: with a weather snapshot of cloud cover c and humidity h the annual
\* irradiance is annual x (1 - 0.15 c / 100) and the efficiency gain is
\* min(25, 5 + 0.3 |latitude|) x (1 - 0.3 c / 100 - 0.1 max(0, (h - 60) / 100));
\* neither exceeds the unadjusted figure, both are positive, and the monthly
\* values are spread from the adjusted annual figure.
C10_WeatherAdjustment ==
    (AppReported /\ weather_data.kind = "data") =>
        LET c    == weather_data.cloud_cover
            h    == weather_data.humidity
            gain == IF 500 + 3 * Abs(request.latitude) > 2500 THEN <<25, 1>>
                    ELSE Rat(500 + 3 * Abs(request.latitude), 100)
        IN  /\ est.weather_adjusted_poa = RMul(est.annual_poa, Rat(10000 - 15 * c, 10000))
            /\ est.weather_adjusted_efficiency =
                  RMul(gain, Rat(1000 - 3 * c - Max(0, h - 60), 1000))
            /\ response.annual_irradiance = Round1(est.weather_adjusted_poa)
            /\ response.efficiency_gain = Round1(est.weather_adjusted_efficiency)
            /\ ~RLess(est.annual_poa, est.weather_adjusted_poa)
            /\ ~RLess(est.efficiency_gain, est.weather_adjusted_efficiency)
            /\ response.annual_irradiance <= Round1(est.annual_poa)
            /\ response.efficiency_gain <= Round1(est.efficiency_gain)
            /\ response.annual_irradiance > 0
            /\ response.efficiency_gain > 0
            /\ RSum(est.monthly_values) = est.weather_adjusted_poa

C10_Witness ==
    /\ AppReported
    /\ weather_data.kind = "data"
    /\ weather_data.cloud_cover = 100
    /\ weather_data.humidity = 100
    /\ RLess(est.weather_adjusted_poa, est.annual_poa)
    /\ RSum(est.monthly_values) = est.weather_adjusted_poa

RequestValid == LatitudeOk(request.latitude) /\ LongitudeOk(request.longitude)

\* C11: while one request is handled the weather collaborator is called at most
\* once: exactly once when include_weather is set and the coordinates are valid,
\* never otherwise, never again after a failure or timeout; and the response is
\* produced only after that call has returned or failed.
C11_OneWeatherCall ==
    /\ weather_calls <= 1
    /\ (weather_calls = 1) => (request.include_weather /\ RequestValid)
    /\ pc = "done" =>
          weather_calls = (IF request.include_weather /\ RequestValid THEN 1 ELSE 0)
    /\ (handler = "app" /\ pc = "awaiting") =>
          (weather_calls = 1 /\ fetch = NoFetch /\ response = NoResponse)
    /\ (handler = "app" /\ weather_calls = 1 /\ response # NoResponse) =>
          fetch # NoFetch

C11_Witness ==
    /\ AppReported
    /\ request.include_weather
    /\ fetch.kind = "timeout"
    /\ weather_calls = 1

\* the earliest index of the largest of the values
C12_FirstMax(values) ==
    CHOOSE i \in 1..Len(values) :
        /\ \A j \in 1..Len(values) : ~RLess(values[i], values[j])
        /\ \A j \in 1..(i - 1) : RLess(values[j], values[i])

\* the earliest index of the smallest of the values
C12_FirstMin(values) ==
    CHOOSE i \in 1..Len(values) :
        /\ \A j \in 1..Len(values) : ~RLess(values[j], values[i])
        /\ \A j \in 1..(i - 1) : RLess(values[i], values[j])

\* C12: peak_month and low_month are the months at the earliest index of the
\* largest and of the smallest unrounded monthly value, and they are those of
\* the same latitude and longitude without weather, whatever the weather was.
C12_PeakAndLowMonth ==
    AppReported =>
        /\ response.peak_month = months_full[C12_FirstMax(est.monthly_values)]
        /\ response.low_month = months_full[C12_FirstMin(est.monthly_values)]
        /\ response.peak_month = ReportWithoutWeather(request).peak_month
        /\ response.low_month = ReportWithoutWeather(request).low_month

C12_Witness ==
    /\ AppReported
    /\ weather_data.kind = "data"
    /\ weather_data.cloud_cover = 100
    /\ request.latitude < 0
    /\ response.peak_month = "January"
    /\ response.low_month = "June"

InSeq(x, seq) == \E i \in 1..Len(seq) : seq[i] = x

\* C13: the high-humidity tip is returned exactly when weather is present with
\* humidity > 80 and cloud_cover <= 70, and is then the 6th and last entry; with
\* cloud_cover > 70 and humidity > 80 the list built has 7 entries and the 6
\* returned are the cloud-cover tip, both band tips and the three general tips.
C13_HumidityTip ==
    AppReported =>
        LET present == weather_data.kind = "data"
            humid   == present /\ weather_data.humidity > 80
            cloudy  == present /\ weather_data.cloud_cover > 70
            built   == BuildTips(request.latitude, weather_data)
        IN  /\ InSeq(HumidityTip, response.tips) <=> (humid /\ ~cloudy)
            /\ (humid /\ ~cloudy) =>
                  (Len(response.tips) = 6 /\ response.tips[6] = HumidityTip)
            /\ (humid /\ cloudy) =>
                  /\ Len(built) = 7
                  /\ built[7] = HumidityTip
                  /\ response.tips =
                        <<CloudTip>> \o BandTips(Abs(request.latitude)) \o GeneralTips

C13_Witness ==
    /\ AppReported
    /\ weather_data.kind = "data"
    /\ weather_data.cloud_cover = 71
    /\ weather_data.humidity = 81
    /\ ~InSeq(HumidityTip, response.tips)
    /\ response.tips[6] = GeneralTips[3]

\* C14: weather_adjusted is true exactly when a weather snapshot was obtained
\* and applied (weather_data is not null); a request with include_weather set
\* whose fetch fails reports weather_adjusted false with weather_data null.
C14_AdjustedFlagMeansWeather ==
    (pc = "done" /\ response.status = 200) =>
        (response.weather_adjusted <=> weather_data.kind = "data")

====
